---------------------------- MODULE Spec2Model ----------------------------
(***************************************************************************)
(* The account command layer of the CLI wallet (src/commands/account.rs).  *)
(* Every handler takes an AccountHandle of the external wallet engine,     *)
(* makes its engine calls, prints, and returns Ok or Err.  The model keeps *)
(* the engine's account (addresses, transactions), and, for the command    *)
(* that ran last, what it was given, which engine calls and faucet         *)
(* requests it made, what it printed and what it returned.                 *)
(***************************************************************************)
EXTENDS Integers, Sequences, FiniteSets, TLC

(* ------------------------------ bounds -------------------------------- *)

\* Addresses the account may hold; the address command is not run past it.
MaxAddresses == 3
\* Transactions the account may hold; the send commands are not run past it.
MaxTransactions == 2
\* Addresses the account may already hold when the prompt starts.
InitAddresses == 1

(* ------------------------------ inputs -------------------------------- *)

None == <<>>
Some(x) == <<x>>

\* A u64, as its four 16-bit limbs, the lowest first.
Limb == 2^16
U64Max == << Limb - 1, Limb - 1, Limb - 1, Limb - 1 >>
U64Zero == << 0, 0, 0, 0 >>
\* 1000000, the amount of the send example
U64Million == << 16960, 15, 0, 0 >>

\* 2^256 - 1 in decimal, one digit per element.
U256MaxDigits ==
    << "1", "1", "5", "7", "9", "2", "0", "8", "9", "2", "3", "7", "3", "1", "6", "1", "9", "5", "4", "2",
       "3", "5", "7", "0", "9", "8", "5", "0", "0", "8", "6", "8", "7", "9", "0", "7", "8", "5", "3", "2",
       "6", "9", "9", "8", "4", "6", "6", "5", "6", "4", "0", "5", "6", "4", "0", "3", "9", "4", "5", "7",
       "5", "8", "4", "0", "0", "7", "9", "1", "3", "1", "2", "9", "6", "3", "9", "9", "3", "5" >>

DEFAULT_FAUCET_URL == "http://localhost:14265/api/plugins/faucet/v1/enqueue"

\* The token id of the send-native example, one character per element.
DocTokenId ==
    << "0", "8", "e", "3", "a", "2", "f", "7", "6", "c", "c", "9", "3", "4", "b", "c", "0", "c", "c",
       "2", "1", "5", "7", "5", "b", "4", "6", "1", "0", "c", "1", "d", "7", "d", "4", "e", "b", "5",
       "8", "9", "a", "e", "0", "1", "0", "0", "0", "0", "0", "0", "0", "0", "0", "0", "0", "0", "0",
       "0", "0", "0", "0", "0", "0", "0", "0", "0", "0", "0", "0", "0", "0", "0", "0", "0", "0", "0" >>

\* Faucet { url: Option<String> }
FaucetUrls == { None, Some(DEFAULT_FAUCET_URL), Some("http://faucet.example/enqueue") }
\* Send { address: String, amount: u64 }
SendAddresses == { "atoi1qzt0nhsf38nh6rs4p6zs5knqp6psgha9wsv74uajqgjmwc75ugupx3y7x0r", "atoi1other" }
SendAmounts == { U64Zero, U64Million, U64Max }
\* SendNative { address, token_id, native_token_amount }, all three strings
TokenIdStrings == { DocTokenId, << "z", "z" >> }
NativeAmountStrings ==
    { << "1", "0" >>, << "0", "1", "0" >>, << "1", "x" >>,
      U256MaxDigits, [ i \in 1..Len(U256MaxDigits) |-> "9" ] }

(* ------------------------------- state -------------------------------- *)

VARIABLES
    addresses,      \* the engine's account: its addresses, as list_addresses returns them
    transactions,   \* the engine's account: its transactions, as list_transactions returns them
    generated,      \* how many addresses the engine generated since the prompt started
    lastGenerated,  \* the address the engine generated last (None: the account has none)
    addressOk,      \* how many address commands returned Ok
    cmd,            \* the command that ran last ("none": no command yet)
    args,           \* its arguments
    calls,          \* the engine calls it made, in order
    requests,       \* the faucet requests it made, in order
    out,            \* the lines it printed, in order
    result          \* what it returned: "Ok" or "Err", or "Panic" for an unwrap of an Err

account == << addresses, transactions, generated, lastGenerated >>
vars == << addresses, transactions, generated, lastGenerated, addressOk,
           cmd, args, calls, requests, out, result >>

(* ------------------------- the wallet engine -------------------------- *)

\* The i-th address of the account (key index i - 1), a public address.
AccountAddress(i) == [ address |-> i, key_index |-> i - 1, internal |-> FALSE ]

\* Address::to_bech32: the human-readable part and the address data.
to_bech32(a) == << "atoi", a.address >>

\* AccountHandle::generate_addresses(amount, options): the addresses it adds.
NewAddresses(addrs, amount) == [ i \in 1..amount |-> AccountAddress(Len(addrs) + i) ]

\* The transaction the engine creates for a transfer request: which one of the
\* account's it is, and the kind of transfer.
NewTransaction(txs, req) == [ id |-> Len(txs) + 1, op |-> req.op ]

\* What a request to the engine returns when it succeeds.
Response(req) ==
    CASE req.op = "generate_addresses" -> NewAddresses(addresses, req.amount)
      [] req.op = "list_addresses"     -> addresses
      [] req.op = "list_transactions"  -> transactions
      [] req.op \in { "send_amount", "send_native_tokens" } -> NewTransaction(transactions, req)
      [] OTHER -> None

\* What a request does to the account: a failed one, and one that only reads, nothing.
Engine(req, ok) ==
    CASE ok /\ req.op = "generate_addresses" ->
            /\ addresses' = addresses \o Response(req)
            /\ generated' = generated + req.amount
            /\ lastGenerated' = Some(Response(req)[req.amount])
            /\ UNCHANGED transactions
      [] ok /\ req.op \in { "send_amount", "send_native_tokens" } ->
            /\ transactions' = Append(transactions, Response(req))
            /\ UNCHANGED << addresses, generated, lastGenerated >>
      [] OTHER -> UNCHANGED account

(* --------------------------- pure helpers ----------------------------- *)

HexDigits == { "0", "1", "2", "3", "4", "5", "6", "7", "8", "9",
               "a", "b", "c", "d", "e", "f", "A", "B", "C", "D", "E", "F" }
DecDigits == << "0", "1", "2", "3", "4", "5", "6", "7", "8", "9" >>

\* The hex characters of a token id: two for each of its 38 bytes.
TokenIdHexLength == 2 * 38

\* TokenId::from_str: Some(id) for a hex string of a token id's length, else None.
TokenIdFromStr(s) ==
    IF Len(s) = TokenIdHexLength /\ \A i \in 1..Len(s) : s[i] \in HexDigits
    THEN Some(s) ELSE None

IsDecDigit(c) == \E d \in 1..10 : DecDigits[d] = c
DigitValue(c) == (CHOOSE d \in 1..10 : DecDigits[d] = c) - 1

RECURSIVE StripZeros(_)
\* A decimal numeral without its leading zeros: the number it denotes.
StripZeros(s) ==
    IF s = <<>> THEN << "0" >>
    ELSE IF Head(s) = "0" THEN StripZeros(Tail(s))
    ELSE s

\* Whether the numeral n (no leading zeros) denotes more than 2^256 - 1.
OverflowsU256(n) ==
    \/ Len(n) > Len(U256MaxDigits)
    \/ /\ Len(n) = Len(U256MaxDigits)
       /\ \E i \in 1..Len(n) :
             /\ DigitValue(n[i]) > DigitValue(U256MaxDigits[i])
             /\ \A j \in 1..(i - 1) : n[j] = U256MaxDigits[j]

\* U256::from_dec_str: Some(value), or None on a character that is no digit
\* (InvalidCharacter) or a value past 2^256 - 1 (InvalidLength).
U256FromDecStr(s) ==
    IF \E i \in 1..Len(s) : ~IsDecDigit(s[i]) THEN None
    ELSE IF OverflowsU256(StripZeros(s)) THEN None
    ELSE Some(StripZeros(s))

\* print_address: the three lines of one address block.
print_address(a) ==
    << << "ADDRESS", to_bech32(a) >>,
       << "--- Index", a.key_index >>,
       << "--- Change address", a.internal >> >>

\* print_transaction: one line.
print_transaction(t) == << "TRANSACTION", t >>

RECURSIVE Flatten(_)
Flatten(blocks) == IF blocks = <<>> THEN <<>> ELSE Head(blocks) \o Flatten(Tail(blocks))

(* ----------------------- what the handlers ask ------------------------ *)

\* account_handle.list_transactions()
ListTransactionsRequest == [ op |-> "list_transactions" ]
\* account_handle.list_addresses()
ListAddressesRequest == [ op |-> "list_addresses" ]
\* account_handle.sync(None)
SyncRequest == [ op |-> "sync", options |-> None ]
\* (mutant) two addresses asked for
GenerateRequestTwo == [ op |-> "generate_addresses", amount |-> 2, options |-> None ]
\* account_handle.generate_addresses(1, None)
GenerateRequest == [ op |-> "generate_addresses", amount |-> 1, options |-> None ]
\* account_handle.balance()
BalanceRequest == [ op |-> "balance" ]
\* (mutant) the amount narrowed to 32 bits
SendOutputsNarrowed(address, amount) ==
    << [ address |-> address, amount |-> << amount[1], amount[2], 0, 0 >> ] >>
\* vec![AddressAndAmount { address, amount }]
SendOutputs(address, amount) == << [ address |-> address, amount |-> amount ] >>
\* account_handle.send_amount(outputs, None)
SendRequest(address, amount) ==
    [ op |-> "send_amount", outputs |-> SendOutputs(address, amount), options |-> None ]
\* vec![AddressNativeTokens { address, native_tokens: vec![(token, amount)], ..Default::default() }]
NativeOutputs(address, token, amount) ==
    << [ address |-> address, native_tokens |-> << << token, amount >> >> ] >>
\* account_handle.send_native_tokens(outputs, None)
SendNativeRequest(address, token, amount) ==
    [ op |-> "send_native_tokens", outputs |-> NativeOutputs(address, token, amount),
      options |-> None ]
\* (mutant) the faucet command generating a fresh address to fund
FaucetRequestGenerating == GenerateRequest
\* faucet_command's list_addresses call
FaucetRequest == ListAddressesRequest
\* (mutant) first() for last()
FaucetAddressFirst(list) == list[1]
\* list_addresses().last(): the address the faucet is asked to fund
FaucetAddress(list) == list[Len(list)]
\* (mutant) the url given is ignored
FaucetUrlIgnored(url) == DEFAULT_FAUCET_URL
\* match &url { Some(faucet_url) => faucet_url, None => the default }
FaucetUrl(url) == IF url = None THEN DEFAULT_FAUCET_URL ELSE url[1]

\* (mutant) the transactions printed newest first
TransactionLinesReversed(txs) ==
    IF txs = <<>> THEN << << "No transactions found" >> >>
    ELSE [ i \in 1..Len(txs) |-> print_transaction(txs[Len(txs) + 1 - i]) ]
\* transactions.iter().for_each(print_transaction), or the empty-list line
TransactionLines(txs) ==
    IF txs = <<>> THEN << << "No transactions found" >> >>
    ELSE [ i \in 1..Len(txs) |-> print_transaction(txs[i]) ]
\* for address in addresses { print_address(..) }, or the empty-list line
AddressLines(addrs) ==
    IF addrs = <<>> THEN << << "No addresses found" >> >>
    ELSE Flatten([ i \in 1..Len(addrs) |-> print_address(addrs[i]) ])

(* ------------------------------- Init --------------------------------- *)

Init ==
    /\ \E n \in 0..InitAddresses :
          /\ addresses = [ i \in 1..n |-> AccountAddress(i) ]
          /\ lastGenerated = IF n = 0 THEN None ELSE Some(AccountAddress(n))
    /\ transactions = <<>>
    /\ generated = 0
    /\ addressOk = 0
    /\ cmd = "none"
    /\ args = None
    /\ calls = <<>>
    /\ requests = <<>>
    /\ out = <<>>
    /\ result = "Ok"

(* ------------------------------ actions ------------------------------- *)

\* One engine call `req` with outcome `ok`, then the handler's printing `lines`.
OneCall(name, a, req, ok, lines) ==
    /\ Engine(req, ok)
    /\ cmd' = name
    /\ args' = a
    /\ calls' = << req >>
    /\ requests' = <<>>
    /\ out' = IF ok THEN lines ELSE <<>>
    /\ result' = IF ok THEN "Ok" ELSE "Err"

list_transactions_command ==
    \E ok \in BOOLEAN :
        /\ OneCall("list-transactions", None, ListTransactionsRequest, ok,
                   TransactionLines(Response(ListTransactionsRequest)))
        /\ UNCHANGED addressOk

list_addresses_command ==
    \E ok \in BOOLEAN :
        /\ Engine(ListAddressesRequest, ok)
        /\ cmd' = "list-addresses"
        /\ args' = None
        /\ calls' = << ListAddressesRequest >>
        /\ requests' = <<>>
        /\ out' = IF ok THEN AddressLines(Response(ListAddressesRequest)) ELSE <<>>
        /\ result' = IF ok THEN "Ok" ELSE "Panic"
        /\ UNCHANGED addressOk

sync_account_command ==
    \E ok \in BOOLEAN :
        /\ OneCall("sync", None, SyncRequest, ok, << << "Synced" >> >>)
        /\ UNCHANGED addressOk

generate_address_command ==
    /\ Len(addresses) < MaxAddresses
    /\ \E ok \in BOOLEAN :
        /\ OneCall("address", None, GenerateRequest, ok,
                   print_address(Response(GenerateRequest)[1]))
        /\ addressOk' = IF ok THEN addressOk + 1 ELSE addressOk

balance_command ==
    \E ok \in BOOLEAN :
        /\ OneCall("balance", None, BalanceRequest, ok, << << "AccountBalance" >> >>)
        /\ UNCHANGED addressOk

send_command ==
    /\ Len(transactions) < MaxTransactions
    /\ \E address \in SendAddresses, amount \in SendAmounts, ok \in BOOLEAN :
        /\ OneCall("send", [ address |-> address, amount |-> amount ],
                   SendRequest(address, amount), ok,
                   << << "Transaction created", Response(SendRequest(address, amount)) >> >>)
        /\ UNCHANGED addressOk

send_native_command ==
    /\ Len(transactions) < MaxTransactions
    /\ \E address \in SendAddresses, token_id \in TokenIdStrings,
          native_token_amount \in NativeAmountStrings, ok \in BOOLEAN :
        LET a == [ address |-> address, token_id |-> token_id,
                   native_token_amount |-> native_token_amount ]
            token == TokenIdFromStr(token_id)
            amount == U256FromDecStr(native_token_amount)
        IN  IF token = None \/ amount = None
            THEN \* the `?` of a failed parse: no engine call is made
                 /\ cmd' = "send-native"
                 /\ args' = a
                 /\ calls' = <<>>
                 /\ requests' = <<>>
                 /\ out' = <<>>
                 /\ result' = "Err"
                 /\ UNCHANGED << account, addressOk >>
            ELSE LET req == SendNativeRequest(address, token[1], amount[1])
                 IN  /\ OneCall("send-native", a, req, ok,
                                << << "Transaction created", Response(req) >> >>)
                     /\ UNCHANGED addressOk

faucet_command ==
    \E url \in FaucetUrls, ok \in BOOLEAN, funded \in BOOLEAN :
        LET list == Response(FaucetRequest)
            sends == ok /\ list # <<>>
        IN  /\ Engine(FaucetRequest, ok)
            /\ cmd' = "faucet"
            /\ args' = [ url |-> url ]
            /\ calls' = << FaucetRequest >>
            /\ requests' = IF sends
                           THEN << [ url |-> FaucetUrl(url),
                                     address |-> to_bech32(FaucetAddress(list)) ] >>
                           ELSE <<>>
            /\ out' = IF sends /\ funded THEN << << "faucet response" >> >> ELSE <<>>
            /\ result' = IF sends /\ funded THEN "Ok" ELSE "Err"
            /\ UNCHANGED addressOk

Next ==
    \/ list_transactions_command
    \/ list_addresses_command
    \/ sync_account_command
    \/ generate_address_command
    \/ balance_command
    \/ send_command
    \/ send_native_command
    \/ faucet_command

Spec == Init /\ [][Next]_vars

(* ------------------------------- claims ------------------------------- *)

QueryCommands == { "balance", "list-addresses", "list-transactions", "faucet" }
MutatingOps == { "generate_addresses", "send_amount", "send_native_tokens" }

\* C1: whenever faucet_command issues a faucet request, the bech32 address it
\* sends is that of the address the account generated last.
C1_FaucetToLatestAddress ==
    \A i \in 1..Len(requests) :
        /\ lastGenerated # None
        /\ requests[i].address = << "atoi", lastGenerated[1].address >>

\* A faucet request made after two address commands and a transfer.
C1_Witness ==
    /\ cmd = "faucet"
    /\ Len(requests) = 1
    /\ addressOk >= 2
    /\ transactions # <<>>

\* C2: faucet_command makes at most one faucet request; without a url it goes to
\* the default url, with a url it goes to that url (so to the default only when
\* the default is the url supplied).
C2_FaucetUrl ==
    cmd = "faucet" =>
        /\ Len(requests) <= 1
        /\ \A i \in 1..Len(requests) :
              /\ args.url = None =>
                    requests[i].url = "http://localhost:14265/api/plugins/faucet/v1/enqueue"
              /\ args.url # None =>
                    /\ requests[i].url = args.url[1]
                    /\ args.url[1] # "http://localhost:14265/api/plugins/faucet/v1/enqueue"
                          => requests[i].url # "http://localhost:14265/api/plugins/faucet/v1/enqueue"

\* A faucet command without a url that made its request.
C2_Witness ==
    /\ cmd = "faucet"
    /\ args.url = None
    /\ Len(requests) = 1

\* C3: send_command makes exactly one engine call, send_amount, with one output
\* carrying the address and the amount it was given, and no transfer options.
C3_SendForwardsArguments ==
    cmd = "send" =>
        calls = << [ op |-> "send_amount",
                     outputs |-> << [ address |-> args.address, amount |-> args.amount ] >>,
                     options |-> None ] >>

\* A send of the largest u64 amount that the engine accepted.
C3_Witness ==
    /\ cmd = "send"
    /\ args.amount = U64Max
    /\ result = "Ok"

\* C4: the address command asks the engine for one address (count 1, no options);
\* the addresses generated are as many as the address commands that returned Ok;
\* a successful one prints one address block, that of the new address.
C4_AddressGeneratesOne ==
    /\ generated = addressOk
    /\ cmd = "address" =>
          /\ calls = << [ op |-> "generate_addresses", amount |-> 1, options |-> None ] >>
          /\ result = "Ok" =>
                /\ lastGenerated # None
                /\ out = << << "ADDRESS", << "atoi", lastGenerated[1].address >> >>,
                            << "--- Index", lastGenerated[1].key_index >>,
                            << "--- Change address", lastGenerated[1].internal >> >>
          /\ result # "Ok" => out = <<>>

\* The second successful address command.
C4_Witness ==
    /\ cmd = "address"
    /\ result = "Ok"
    /\ addressOk = 2

\* The lines C5 expects of a successful list-transactions.
ExpectedTransactionLines ==
    /\ (out = << << "No transactions found" >> >>) <=> (transactions = <<>>)
    /\ transactions # <<>> =>
          /\ Len(out) = Len(transactions)
          /\ \A i \in 1..Len(transactions) : out[i] = << "TRANSACTION", transactions[i] >>

\* C5 as stated: list_transactions_command prints `No transactions found` exactly
\* when the account has no transactions, otherwise one TRANSACTION line per
\* transaction in the engine's order, and it returns Ok.
C5_AsStated ==
    cmd = "list-transactions" => ExpectedTransactionLines /\ result = "Ok"

\* C5 amended: when the engine's list_transactions call succeeds, the command
\* prints as C5 says and returns Ok; when the call fails, it prints nothing and
\* returns the error.
C5_ListTransactions ==
    cmd = "list-transactions" =>
        /\ calls = << [ op |-> "list_transactions" ] >>
        /\ result \in { "Ok", "Err" }
        /\ result = "Ok" => ExpectedTransactionLines
        /\ result = "Err" => out = <<>>

\* A successful list-transactions of an account with two transactions.
C5_Witness ==
    /\ cmd = "list-transactions"
    /\ result = "Ok"
    /\ Len(transactions) = 2

\* The engine operation a command is named after.
OpOf(c) ==
    CASE c = "address"     -> "generate_addresses"
      [] c = "send"        -> "send_amount"
      [] c = "send-native" -> "send_native_tokens"
      [] c = "sync"        -> "sync"

\* The query commands make no engine call that changes the account.
QueriesCallNoMutatingOp ==
    cmd \in QueryCommands => \A i \in 1..Len(calls) : calls[i].op \notin MutatingOps

\* A step of a query command leaves the addresses and the transactions alone.
QueryFrame ==
    cmd' \in QueryCommands => addresses' = addresses /\ transactions' = transactions

\* C6 as stated: the query commands change nothing, and each of address, send,
\* send-native and sync makes exactly one engine call, the one of its name.
C6_AsStated ==
    /\ QueriesCallNoMutatingOp
    /\ cmd \in { "address", "send", "send-native", "sync" } =>
          Len(calls) = 1 /\ calls[1].op = OpOf(cmd)

\* C6 amended: the query commands change nothing; address, send and sync each make
\* exactly one engine call, the one of their name; send-native makes exactly one,
\* send_native_tokens, when its token id and its amount parse, and none otherwise.
C6_ReadOnlyQueries ==
    /\ [](/\ QueriesCallNoMutatingOp
          /\ cmd \in { "address", "send", "sync" } =>
                Len(calls) = 1 /\ calls[1].op = OpOf(cmd)
          /\ cmd = "send-native" =>
                IF TokenIdFromStr(args.token_id) # None
                   /\ U256FromDecStr(args.native_token_amount) # None
                THEN Len(calls) = 1 /\ calls[1].op = "send_native_tokens"
                ELSE calls = <<>>)
    /\ [][QueryFrame]_vars

\* A send-native whose token id does not parse: it made no engine call.
C6_Witness ==
    /\ cmd = "send-native"
    /\ TokenIdFromStr(args.token_id) = None
    /\ calls = <<>>
    /\ result = "Err"

=============================================================================
